---- MODULE Spec2Model ----
(***************************************************************************)
(* A model of jsontrim (src/jsontrim.go): the Trim pipeline                *)
(*   Unmarshal -> stripBlacklisted -> PreTrim -> trimFields ->             *)
(*   enforceTotal -> PostTrim -> Marshal -> size check                     *)
(* over JSON value trees.  Pure functions of the package are operators     *)
(* with the names they have in the source; Trim is a state machine with    *)
(* one action per statement of Trim and one per iteration of the           *)
(* enforceTotal loop.                                                      *)
(***************************************************************************)
EXTENDS Integers, Sequences, FiniteSets, TLC

VARIABLES
    t,          \* the Trimmer built by New: [cfg, blacklistParts]
    raw,        \* the argument of Trim: a parsed JSON tree, or Malformed
    v,          \* the local variable v of Trim / enforceTotal
    pc,         \* the statement of Trim that runs next
    out,        \* the returned []byte: NoBytes (nil) or Bytes(text)
    err,        \* the returned error
    iter,       \* iterations of the enforceTotal loop taken so far
    tok,        \* the last token the strategy returned in enforceTotal
    stripped,   \* history: the value stripBlacklisted returned
    fielded,    \* history: the value trimFields(v, 1) returned
    before      \* history: v at the head of the last enforceTotal iteration

vars == <<t, raw, v, pc, out, err, iter, tok, stripped, fielded, before>>

-----------------------------------------------------------------------------
(* JSON values as encoding/json decodes them into interface{}.             *)

Nil == [t |-> "null"]
Bool(b) == [t |-> "bool", b |-> b]
Num(n) == [t |-> "num", n |-> n]
Str(s) == [t |-> "str", s |-> s]
Obj(m) == [t |-> "obj", m |-> m]
Arr(a) == [t |-> "arr", a |-> a]

EmptyMap == [k \in {} |-> Nil]

IsContainer(x) == x.t \in {"obj", "arr"}

Marker == "[TRIMMED]"

ErrCannotTrim == "cannot trim JSON below limits"

\* An input text json.Unmarshal rejects.
Malformed == [t |-> "malformed"]

\* A []byte result: the nil slice, or the bytes as a string.
NoBytes == [nil |-> TRUE, bytes |-> ""]
Bytes(s) == [nil |-> FALSE, bytes |-> s]

-----------------------------------------------------------------------------
(* Small helpers over strings, sets and sequences.                         *)

Char(s, i) == SubSeq(s, i, i)

HasPrefix(s, p) == Len(s) >= Len(p) /\ SubSeq(s, 1, Len(p)) = p

Max(a, b) == IF a >= b THEN a ELSE b

RECURSIVE SumSeq(_)
SumSeq(q) == IF q = <<>> THEN 0 ELSE Head(q) + SumSeq(Tail(q))

RECURSIVE SumOver(_, _)
SumOver(f, S) ==
    IF S = {} THEN 0
    ELSE LET k == CHOOSE x \in S : TRUE IN f[k] + SumOver(f, S \ {k})

RECURSIVE Concat(_)
Concat(q) == IF q = <<>> THEN "" ELSE Head(q) \o Concat(Tail(q))

RECURSIVE Join(_)
Join(q) ==
    IF q = <<>> THEN ""
    ELSE IF Len(q) = 1 THEN q[1]
    ELSE q[1] \o "," \o Join(Tail(q))

MapSeq(q, Op(_)) == [i \in 1..Len(q) |-> Op(q[i])]

NonNil(q) == SelectSeq(q, LAMBDA x : x # Nil)

\* The keys the model uses, in the byte order encoding/json sorts map keys by.
KeyOrder == <<"", "a", "b", "id", "idx:0", "meta", "pw", "trimmed_at", "users">>

SortedKeys(m) == SelectSeq(KeyOrder, LAMBDA k : k \in DOMAIN m)

-----------------------------------------------------------------------------
(* json.Marshal of a decoded value.                                        *)

EscapeChar(c) ==
    CASE c = "\"" -> "\\\""
      [] c = "\\" -> "\\\\"
      [] c = "<"  -> "\\u003c"
      [] c = ">"  -> "\\u003e"
      [] c = "&"  -> "\\u0026"
      [] OTHER    -> c

EscapeString(s) == Concat([i \in 1..Len(s) |-> EscapeChar(Char(s, i))])

Quote(s) == "\"" \o EscapeString(s) \o "\""

RECURSIVE Marshal(_)
Marshal(x) ==
    CASE x.t = "null" -> "null"
      [] x.t = "bool" -> IF x.b THEN "true" ELSE "false"
      [] x.t = "num"  -> ToString(x.n)
      [] x.t = "str"  -> Quote(x.s)
      [] x.t = "obj"  ->
            "{" \o Join(MapSeq(SortedKeys(x.m),
                               LAMBDA k : Quote(k) \o ":" \o Marshal(x.m[k]))) \o "}"
      [] x.t = "arr"  -> "[" \o Join(MapSeq(x.a, Marshal)) \o "]"

-----------------------------------------------------------------------------
(* estimateSize: the rough byte count.                                     *)

RECURSIVE estimateSize(_)
estimateSize(x) ==
    CASE x.t = "null" -> 0
      [] x.t = "str"  -> Len(x.s) + 2
      [] x.t = "bool" -> IF x.b THEN 4 ELSE 5
      [] x.t = "num"  -> 8
      [] x.t = "obj"  ->
            2 + SumOver([k \in DOMAIN x.m |-> Len(k) + 2 + 1 + estimateSize(x.m[k]) + 1],
                        DOMAIN x.m)
      [] x.t = "arr"  -> 2 + SumSeq([i \in 1..Len(x.a) |-> estimateSize(x.a[i]) + 1])

-----------------------------------------------------------------------------
(* New: the defaults, and the blacklist split on "." (strings.Split).      *)

RECURSIVE SplitFrom(_, _, _)
SplitFrom(s, i, cur) ==
    IF i > Len(s) THEN <<cur>>
    ELSE IF Char(s, i) = "." THEN <<cur>> \o SplitFrom(s, i + 1, "")
    ELSE SplitFrom(s, i + 1, cur \o Char(s, i))

Split(s) == SplitFrom(s, 1, "")

\* A nil interface or func field of Config.
NilStrategy == [kind |-> "nil"]
NilHook == "nil"

RemoveLargest == [kind |-> "RemoveLargest"]
FIFO == [kind |-> "FIFO"]
PrioritizeKeys(keep, fallback) ==
    [kind |-> "PrioritizeKeys", KeepKeys |-> keep, Fallback |-> fallback]
\* The strategy of the package's tests: always the same array index.
MockStrategy(idx) == [kind |-> "MockStrategy", RemoveIdx |-> idx]

New(cfg) ==
    LET c1 == IF cfg.FieldLimit = 0 THEN [cfg EXCEPT !.FieldLimit = 500] ELSE cfg
        c2 == IF c1.TotalLimit = 0 THEN [c1 EXCEPT !.TotalLimit = 1024] ELSE c1
        c3 == IF c2.MaxDepth = 0 THEN [c2 EXCEPT !.MaxDepth = 10] ELSE c2
        c4 == IF c3.Strategy = NilStrategy THEN [c3 EXCEPT !.Strategy = RemoveLargest] ELSE c3
        c5 == IF c4.Hooks.PreTrim = NilHook THEN [c4 EXCEPT !.Hooks.PreTrim = "identity"] ELSE c4
        c6 == IF c5.Hooks.PostTrim = NilHook THEN [c5 EXCEPT !.Hooks.PostTrim = "identity"] ELSE c5
    IN  [cfg |-> c6, blacklistParts |-> MapSeq(c6.Blacklist, Split)]

-----------------------------------------------------------------------------
(* The hooks a caller may install.  "identity" is New's default; "stamp"    *)
(* is the PreTrim of the README (adds a key to a root object); "log" is the *)
(* PostTrim of the README (returns v); "wrap" is a caller's hook that       *)
(* returns a larger value than it was given.                                *)

ApplyHook(h, x) ==
    CASE h = "identity" -> x
      [] h = "log"      -> x
      [] h = "stamp"    ->
            IF x.t = "obj"
            THEN Obj([k \in DOMAIN x.m \cup {"trimmed_at"} |->
                        IF k = "trimmed_at" THEN Str("2026-11-05T10:00:00Z") ELSE x.m[k]])
            ELSE x
      [] h = "wrap"     -> Arr(<<x, x>>)

-----------------------------------------------------------------------------
(* The Blacklist Stripper.                                                 *)

RuleMatches(rule, path) ==
    /\ Len(rule) = Len(path)
    /\ \A i \in 1..Len(rule) : rule[i] = "*" \/ rule[i] = path[i]

matchesBlacklist(tr, path) ==
    IF Len(path) = 0 THEN FALSE
    ELSE \E r \in 1..Len(tr.blacklistParts) : RuleMatches(tr.blacklistParts[r], path)

\* An index segment that counts from one.
IndexSegmentOneBased(i) == ToString(i + 1)

\* fmt.Sprintf("%d", i): the path segment of array index i
IndexSegment(i) == ToString(i)

RECURSIVE stripRecursive(_, _, _)
stripRecursive(tr, x, currentPath) ==
    IF matchesBlacklist(tr, currentPath)
    THEN IF tr.cfg.ReplaceWithMarker THEN Str(Marker) ELSE Nil
    ELSE CASE x.t = "obj" ->
                LET r == [k \in DOMAIN x.m |->
                            stripRecursive(tr, x.m[k], Append(currentPath, k))]
                IN  Obj([k \in {k \in DOMAIN x.m : r[k] # Nil} |-> r[k]])
           [] x.t = "arr" ->
                LET r == [i \in 1..Len(x.a) |->
                            stripRecursive(tr, x.a[i], Append(currentPath, IndexSegment(i - 1)))]
                    o == NonNil(r)
                IN  IF Len(o) = 0 THEN Nil ELSE Arr(o)
           [] OTHER -> x

stripBlacklisted(tr, x) ==
    IF Len(tr.blacklistParts) = 0 THEN x ELSE stripRecursive(tr, x, <<>>)

-----------------------------------------------------------------------------
(* The Field Trimmer.                                                      *)

\* What the loops of trimFields put into out for one trimmed child: Nil
\* stands for "nothing" (the continue statements).
TrimmedChild(tr, trimmed) ==
    IF trimmed = Nil THEN Nil
    ELSE IF /\ estimateSize(trimmed) > tr.cfg.FieldLimit
            /\ Len(Marshal(trimmed)) > tr.cfg.FieldLimit
         THEN IF tr.cfg.ReplaceWithMarker THEN Str(Marker) ELSE Nil
         ELSE trimmed

TrimString(tr, x) ==
    IF Len(x.s) > tr.cfg.FieldLimit
    THEN LET newLen == tr.cfg.FieldLimit - 6
         IN  IF tr.cfg.TruncateStrings /\ newLen > 0 /\ Len(x.s) > newLen
             THEN Str(SubSeq(x.s, 1, newLen) \o "...")
             ELSE IF tr.cfg.ReplaceWithMarker THEN Str(Marker) ELSE Nil
    ELSE x

\* A depth test that lets one level too many through.
TooDeepOffByOne(tr, depth) == depth > tr.cfg.MaxDepth + 1

\* if depth > t.cfg.MaxDepth
TooDeep(tr, depth) == depth > tr.cfg.MaxDepth

RECURSIVE trimFields(_, _, _)
trimFields(tr, x, depth) ==
    IF TooDeep(tr, depth)
    THEN IF tr.cfg.ReplaceWithMarker THEN Str(Marker) ELSE Nil
    ELSE CASE x.t = "obj" ->
                LET r == [k \in DOMAIN x.m |->
                            TrimmedChild(tr, trimFields(tr, x.m[k], depth + 1))]
                IN  Obj([k \in {k \in DOMAIN x.m : r[k] # Nil} |-> r[k]])
           [] x.t = "arr" ->
                Arr(NonNil([i \in 1..Len(x.a) |->
                              TrimmedChild(tr, trimFields(tr, x.a[i], depth + 1))]))
           [] x.t = "str" -> TrimString(tr, x)
           [] OTHER -> x

-----------------------------------------------------------------------------
(* The removal strategies.  Go iterates a map in an unspecified order, so   *)
(* a strategy's answer on a map is one of a set: one answer per order.      *)

MapOrders(m) ==
    LET n == Cardinality(DOMAIN m)
    IN  {q \in [1..n -> DOMAIN m] : \A i, j \in 1..n : i # j => q[i] # q[j]}

RECURSIVE LargestKey(_, _, _, _, _)
LargestKey(m, order, i, maxKey, maxSize) ==
    IF i > Len(order) THEN maxKey
    ELSE LET sz == estimateSize(m[order[i]])
         IN  IF sz > maxSize
             THEN LargestKey(m, order, i + 1, order[i], sz)
             ELSE LargestKey(m, order, i + 1, maxKey, maxSize)

RECURSIVE LargestIdx(_, _, _, _)
LargestIdx(a, i, maxIdx, maxSize) ==
    IF i > Len(a) THEN maxIdx
    ELSE LET sz == estimateSize(a[i])
         IN  IF sz > maxSize
             THEN LargestIdx(a, i + 1, i - 1, sz)
             ELSE LargestIdx(a, i + 1, maxIdx, maxSize)

IdxToken(i) == "idx:" \o ToString(i)

RemoveLargestSelect(x) ==
    CASE x.t = "obj" -> {LargestKey(x.m, o, 1, "", 0) : o \in MapOrders(x.m)}
      [] x.t = "arr" ->
            LET maxIdx == LargestIdx(x.a, 1, -1, 0)
            IN  IF maxIdx >= 0 THEN {IdxToken(maxIdx)} ELSE {""}
      [] OTHER -> {""}

FIFOSelect(x) ==
    CASE x.t = "obj" ->
            IF DOMAIN x.m = {} THEN {""} ELSE {o[1] : o \in MapOrders(x.m)}
      [] x.t = "arr" -> IF Len(x.a) > 0 THEN {IdxToken(0)} ELSE {""}
      [] OTHER -> {""}

MockSelect(s, x) ==
    IF x.t = "arr" /\ Len(x.a) > s.RemoveIdx THEN {IdxToken(s.RemoveIdx)} ELSE {""}

IsKeep(s, k) == \E i \in 1..Len(s.KeepKeys) : s.KeepKeys[i] = k

RECURSIVE SelectNextToRemove(_, _)
\* A PrioritizeKeys that hands the whole container to its fallback.
PrioritizeKeysIgnoringKeep(s, x) ==
    SelectNextToRemove(IF s.Fallback = NilStrategy THEN FIFO ELSE s.Fallback, x)

PrioritizeKeysSelect(s, x) ==
    LET fallback == IF s.Fallback = NilStrategy THEN FIFO ELSE s.Fallback
    IN  IF Len(s.KeepKeys) = 0 THEN SelectNextToRemove(fallback, x)
        ELSE IF x.t = "obj"
        THEN LET cand == {k \in DOMAIN x.m : ~IsKeep(s, k)}
                 candidates == Obj([k \in cand |-> x.m[k]])
             IN  IF Cardinality(cand) > 0
                 THEN SelectNextToRemove(fallback, candidates)
                 ELSE SelectNextToRemove(fallback, x)
        ELSE {""}

SelectNextToRemove(s, x) ==
    CASE s.kind = "RemoveLargest"  -> RemoveLargestSelect(x)
      [] s.kind = "FIFO"           -> FIFOSelect(x)
      [] s.kind = "PrioritizeKeys" -> PrioritizeKeysSelect(s, x)
      [] s.kind = "MockStrategy"   -> MockSelect(s, x)

-----------------------------------------------------------------------------
(* One removal of enforceTotal (the switch at the end of the loop body).   *)

DigitOf(c) ==
    CASE c = "0" -> 0 [] c = "1" -> 1 [] c = "2" -> 2 [] c = "3" -> 3 [] c = "4" -> 4
      [] c = "5" -> 5 [] c = "6" -> 6 [] c = "7" -> 7 [] c = "8" -> 8 [] c = "9" -> 9
      [] OTHER -> -1

RECURSIVE ScanDigits(_, _, _, _)
ScanDigits(s, i, n, seen) ==
    IF i > Len(s) \/ DigitOf(Char(s, i)) < 0 THEN [ok |-> seen, n |-> n]
    ELSE ScanDigits(s, i + 1, 10 * n + DigitOf(Char(s, i)), TRUE)

\* fmt.Sscanf(s, "%d", &idx): an optional sign, then decimal digits.
Sscanf(s) ==
    IF Len(s) > 0 /\ Char(s, 1) = "-"
    THEN LET r == ScanDigits(s, 2, 0, FALSE) IN [ok |-> r.ok, n |-> 0 - r.n]
    ELSE IF Len(s) > 0 /\ Char(s, 1) = "+" THEN ScanDigits(s, 2, 0, FALSE)
    ELSE ScanDigits(s, 1, 0, FALSE)

\* vv[toRemove] of a Go map: nil for a key that is absent.
MapGet(m, k) == IF k \in DOMAIN m THEN m[k] ELSE Nil

\* A removal that moves the last element into the hole.
ShiftOutSwapLast(a, idx) ==
    LET n == Len(a)
    IN  SubSeq([a EXCEPT ![idx + 1] = a[n]], 1, n - 1)

\* copy(vv[idx:], vv[idx+1:]); vv = vv[:len(vv)-1]
ShiftOut(a, idx) ==
    LET n == Len(a)
        copied == [j \in 1..n |-> IF j >= idx + 1 /\ j < n THEN a[j + 1] ELSE a[j]]
    IN  SubSeq(copied, 1, n - 1)

RemoveFromMap(tr, x, toRemove) ==
    IF ~HasPrefix(toRemove, "idx:")
    THEN IF tr.cfg.ReplaceWithMarker /\ MapGet(x.m, toRemove) # Str(Marker)
         THEN Obj([k \in DOMAIN x.m \cup {toRemove} |->
                     IF k = toRemove THEN Str(Marker) ELSE x.m[k]])
         ELSE Obj([k \in DOMAIN x.m \ {toRemove} |-> x.m[k]])
    ELSE x

RemoveFromArray(tr, x, toRemove) ==
    IF HasPrefix(toRemove, "idx:")
    THEN LET r == Sscanf(SubSeq(toRemove, 5, Len(toRemove)))
         IN  IF r.ok /\ r.n >= 0 /\ r.n < Len(x.a)
             THEN IF tr.cfg.ReplaceWithMarker /\ x.a[r.n + 1] # Str(Marker)
                  THEN Arr([x.a EXCEPT ![r.n + 1] = Str(Marker)])
                  ELSE Arr(ShiftOut(x.a, r.n))
             ELSE x
    ELSE x

RemoveEntry(tr, x, toRemove) ==
    CASE x.t = "obj" -> RemoveFromMap(tr, x, toRemove)
      [] x.t = "arr" -> RemoveFromArray(tr, x, toRemove)
      [] OTHER -> x

OverTotal(tr, x) == Len(Marshal(x)) > tr.cfg.TotalLimit

-----------------------------------------------------------------------------
(* Bounds of the model.                                                    *)

\* entries of a generated object
MaxWidth == 2
\* elements of a generated array
MaxLen == 3
\* iterations of the enforceTotal loop the model follows
MaxIter == 10

-----------------------------------------------------------------------------
(* Inputs and configurations.                                              *)

S12 == "xxxxxxxxxxxx"

ObjsOver(keys, vals, w) ==
    {Obj(f) : f \in UNION {[D -> vals] : D \in {D \in SUBSET keys : Cardinality(D) <= w}}}

ArrsOver(vals, n) == {Arr(a) : a \in UNION {[1..k -> vals] : k \in 0..n}}

\* {"nest":{"nest": ... {"leaf":"data"}}} of the package's TestMaxDepth, with
\* the keys of the model.
RECURSIVE Nest(_)
Nest(d) == IF d = 0 THEN Obj([k \in {"b"} |-> Str("x")])
           ELSE Obj([k \in {"a"} |-> Nest(d - 1)])

Scalars == {Nil, Bool(TRUE), Bool(FALSE), Num(7), Num(1234567890),
            Str("x"), Str(S12), Str(Marker), Str("a\"b<")}

DefaultConfig ==
    [FieldLimit |-> 0, TotalLimit |-> 0, Blacklist |-> <<>>, Strategy |-> NilStrategy,
     MaxDepth |-> 0, TruncateStrings |-> FALSE, ReplaceWithMarker |-> FALSE,
     Hooks |-> [PreTrim |-> NilHook, PostTrim |-> NilHook]]

\* Total enforcement: small TotalLimit, every strategy, flat containers.
TotalInputs ==
    ObjsOver({"a", "id", "", "idx:0"}, {Num(7), Str("x"), Str(S12)}, MaxWidth)
    \cup ArrsOver({Num(7), Str("x"), Str(S12)}, MaxLen)
    \cup {Str(S12), Nil}

Strategies ==
    {NilStrategy, RemoveLargest, FIFO,
     PrioritizeKeys(<<"id">>, NilStrategy), PrioritizeKeys(<<"id", "a">>, RemoveLargest),
     PrioritizeKeys(<<>>, NilStrategy), MockStrategy(1)}

TotalConfigs ==
    {[DefaultConfig EXCEPT !.TotalLimit = tl, !.Strategy = s, !.ReplaceWithMarker = rwm] :
        tl \in {8, 20}, s \in Strategies, rwm \in BOOLEAN}

\* Field trimming: small FieldLimit, every MaxDepth, nested values.
FieldKids ==
    {Nil, Num(1234567890), Str("x"), Str(S12), Str("a\"b<"),
     Arr(<<Str("x"), Num(1234567890)>>),
     Obj([k \in {"b"} |-> Obj([k2 \in {"a"} |-> Str("x")])])}

FieldInputs ==
    Scalars
    \cup ObjsOver({"a", "b"}, FieldKids, MaxWidth)
    \cup ArrsOver({Nil, Str(S12), Arr(<<Str("x"), Num(1234567890)>>)}, MaxLen)
    \cup {Nest(d) : d \in 0..3}
    \cup {Str("xxxxxxxx"), Str("xxxxxxx"), Str("xxxxxxxxxxxxxxxxxxxx")}

FieldConfigs ==
    {[DefaultConfig EXCEPT !.FieldLimit = fl, !.MaxDepth = md,
                           !.TruncateStrings = tr, !.ReplaceWithMarker = rwm] :
        fl \in {0, 8, 12}, md \in {0, 1, 2}, tr \in BOOLEAN, rwm \in BOOLEAN}

\* Blacklisting: wildcard and literal rules, nested values.
User(n, pw) == Obj([k \in {"id", "pw"} |-> IF k = "id" THEN Num(n) ELSE Str(pw)])

Users ==
    Obj([k \in {"users", "meta"} |->
            IF k = "users" THEN Arr(<<User(1, "abc"), User(2, "xyz")>>)
            ELSE Obj([k2 \in {"pw"} |-> Str("no-match")])])

StripKids ==
    {Nil, Str("x"), Obj(EmptyMap), Arr(<<>>),
     Obj([k \in {"a", "b"} |-> Str("x")]),
     Obj([k \in {"b"} |-> Obj([k2 \in {"a"} |-> Num(7)])]),
     Arr(<<Str("x"), Num(7)>>), Arr(<<Obj([k \in {"a"} |-> Str("x")]), Nil>>)}

StripInputs ==
    ObjsOver({"a", "b"}, StripKids, MaxWidth)
    \cup ArrsOver({Nil, Num(7), Obj([k \in {"a"} |-> Str("x")]),
                   Arr(<<Str("x"), Num(7)>>)}, MaxLen)
    \cup {Users, Str("x"), Num(7)}

Blacklists ==
    {<<"a">>, <<"a.b">>, <<"*.a">>, <<"users.*.pw">>, <<"a.0">>, <<"1">>, <<"*">>,
     <<"b", "a.a">>, <<"*.*.a">>}

StripConfigs ==
    {[DefaultConfig EXCEPT !.Blacklist = bl, !.ReplaceWithMarker = rwm] :
        bl \in Blacklists, rwm \in BOOLEAN}

\* Hooks, with every stage active at once.
HookInputs ==
    ObjsOver({"a", "b"}, {Nil, Str("x"), Str(S12), Arr(<<Str("x"), Num(7)>>)}, MaxWidth)
    \cup ArrsOver({Str("x"), Str(S12)}, MaxLen)
    \cup {Str("x"), Str(S12), Malformed}

HookConfigs ==
    {[DefaultConfig EXCEPT !.FieldLimit = 12, !.TotalLimit = tl, !.Blacklist = bl,
                           !.ReplaceWithMarker = rwm, !.Strategy = s,
                           !.Hooks = [PreTrim |-> pre, PostTrim |-> post]] :
        tl \in {20, 40}, bl \in {<<>>, <<"a">>}, rwm \in BOOLEAN, s \in {FIFO},
        pre \in {NilHook, "stamp"}, post \in {NilHook, "log", "wrap"}}

-----------------------------------------------------------------------------
(* Trim as a state machine.                                                *)

InitWith(cfg, input) ==
    /\ t = New(cfg)
    /\ raw = input
    /\ v = Nil
    /\ pc = "unmarshal"
    /\ out = NoBytes
    /\ err = "nil"
    /\ iter = 0
    /\ tok = ""
    /\ stripped = Nil
    /\ fielded = Nil
    /\ before = Nil

Init ==
    \/ \E cfg \in TotalConfigs, input \in TotalInputs : InitWith(cfg, input)
    \/ \E cfg \in FieldConfigs, input \in FieldInputs : InitWith(cfg, input)
    \/ \E cfg \in StripConfigs, input \in StripInputs : InitWith(cfg, input)
    \/ \E cfg \in HookConfigs, input \in HookInputs : InitWith(cfg, input)

\* json.Unmarshal(raw, &v)
Unmarshal ==
    /\ pc = "unmarshal"
    /\ IF raw = Malformed
       THEN /\ pc' = "done"
            /\ err' = "syntax error"
            /\ UNCHANGED v
       ELSE /\ pc' = "strip"
            /\ v' = raw
            /\ UNCHANGED err
    /\ UNCHANGED <<t, raw, out, iter, tok, stripped, fielded, before>>

\* v = t.stripBlacklisted(v)
StripBlacklisted ==
    /\ pc = "strip"
    /\ v' = stripBlacklisted(t, v)
    /\ stripped' = v'
    /\ pc' = "pre"
    /\ UNCHANGED <<t, raw, out, err, iter, tok, fielded, before>>

\* v = t.cfg.Hooks.PreTrim(v)
PreTrim ==
    /\ pc = "pre"
    /\ v' = ApplyHook(t.cfg.Hooks.PreTrim, v)
    /\ pc' = "fields"
    /\ UNCHANGED <<t, raw, out, err, iter, tok, stripped, fielded, before>>

\* v = t.trimFields(v, 1)
TrimFields ==
    /\ pc = "fields"
    /\ v' = trimFields(t, v, 1)
    /\ fielded' = v'
    /\ pc' = "enforce"
    /\ UNCHANGED <<t, raw, out, err, iter, tok, stripped, before>>

\* enforceTotal: the iteration that returns because v fits.
EnforceReturn ==
    /\ pc = "enforce"
    /\ ~OverTotal(t, v)
    /\ pc' = "post"
    /\ UNCHANGED <<t, raw, v, out, err, iter, tok, stripped, fielded, before>>

\* enforceTotal: the iteration in which the strategy returns "" (break).
EnforceBreak ==
    /\ pc = "enforce"
    /\ OverTotal(t, v)
    /\ "" \in SelectNextToRemove(t.cfg.Strategy, v)
    /\ tok' = ""
    /\ before' = v
    /\ pc' = "post"
    /\ UNCHANGED <<t, raw, v, out, err, iter, stripped, fielded>>

\* enforceTotal: the iteration that applies a token and loops.
EnforceRemove ==
    /\ pc = "enforce"
    /\ OverTotal(t, v)
    /\ iter < MaxIter
    /\ \E toRemove \in SelectNextToRemove(t.cfg.Strategy, v) :
          /\ toRemove # ""
          /\ tok' = toRemove
          /\ before' = v
          /\ v' = RemoveEntry(t, v, toRemove)
    /\ iter' = iter + 1
    /\ UNCHANGED <<t, raw, pc, out, err, stripped, fielded>>

\* v = t.cfg.Hooks.PostTrim(v, nil)
PostTrim ==
    /\ pc = "post"
    /\ v' = ApplyHook(t.cfg.Hooks.PostTrim, v)
    /\ pc' = "marshal"
    /\ UNCHANGED <<t, raw, out, err, iter, tok, stripped, fielded, before>>

\* A Trim without its last check: whatever was serialized is returned.
DefensiveCheckMissing(tr, encoded) == [out |-> Bytes(encoded), err |-> "nil"]

\* if len(out) > t.cfg.TotalLimit { return nil, ErrCannotTrim }; return out, nil
DefensiveCheck(tr, encoded) ==
    IF Len(encoded) > tr.cfg.TotalLimit
    THEN [out |-> NoBytes, err |-> ErrCannotTrim]
    ELSE [out |-> Bytes(encoded), err |-> "nil"]

\* out, err := json.Marshal(v), and the defensive check.
MarshalAndCheck ==
    /\ pc = "marshal"
    /\ LET r == DefensiveCheck(t, Marshal(v))
       IN  out' = r.out /\ err' = r.err
    /\ pc' = "done"
    /\ UNCHANGED <<t, raw, v, iter, tok, stripped, fielded, before>>

Next ==
    \/ Unmarshal
    \/ StripBlacklisted
    \/ PreTrim
    \/ TrimFields
    \/ EnforceReturn
    \/ EnforceBreak
    \/ EnforceRemove
    \/ PostTrim
    \/ MarshalAndCheck

Spec == Init /\ [][Next]_vars

-----------------------------------------------------------------------------
(* Vocabulary of the claims.                                               *)

IdentityHooks ==
    /\ t.cfg.Hooks.PreTrim = "identity"
    /\ t.cfg.Hooks.PostTrim \in {"identity", "log"}

WellFormed == raw # Malformed

Returned == pc = "done"

Succeeded == pc = "done" /\ err = "nil"

-----------------------------------------------------------------------------
\* C1: a call of Trim on well-formed JSON returns either bytes of length
\* <= TotalLimit with a nil error, or ErrCannotTrim with no bytes; a
\* successful result never exceeds TotalLimit, whatever the strategy removed
\* and whatever PostTrim returned.
C1_WithinTotalLimitOrErrCannotTrim ==
    (Returned /\ WellFormed) =>
        \/ /\ err = "nil"
           /\ out = Bytes(Marshal(v))
           /\ Len(out.bytes) <= t.cfg.TotalLimit
        \/ /\ err = ErrCannotTrim
           /\ out = NoBytes

\* A successful return after the strategy removed entries and a PostTrim hook
\* enlarged the value.
C1_Witness ==
    /\ Succeeded
    /\ iter > 0
    /\ t.cfg.Hooks.PostTrim = "wrap"
    /\ Len(out.bytes) <= t.cfg.TotalLimit

-----------------------------------------------------------------------------
(* Paths of the input, as the claims speak of them: object keys and        *)
(* decimal array indices from 0, the root being the empty path.            *)

KeyPath(path, k) == Append(path, k)
IndexPath(path, i) == Append(path, ToString(i - 1))

Blacklisted(path) == matchesBlacklist(t, path)

MarkerValue == Str(Marker)

\* The strictly increasing maps from the positions of a sequence of length m
\* into those of a sequence of length n: the ways the former can be what is
\* left of the latter, in order.
Increasing(m, n) ==
    {f \in [1..m -> 1..n] : \A i, j \in 1..m : i < j => f[i] < f[j]}

\* A string cut by TruncateStrings.
Truncated(in, o) ==
    /\ in.t = "str" /\ o.t = "str"
    /\ \E n \in 1..Len(in.s) : o.s = SubSeq(in.s, 1, n) \o "..."

AfterStrip == pc \notin {"unmarshal", "strip"} /\ WellFormed

-----------------------------------------------------------------------------
\* o is what is left of in (at path) when every value at a blacklisted path
\* is gone or holds the Marker, gone whenever ReplaceWithMarker is false: no
\* entry of o comes from a blacklisted path or from below one.
RECURSIVE RedactionOf(_, _, _)
RedactedEntry(in, o, path) ==
    IF Blacklisted(path)
    THEN t.cfg.ReplaceWithMarker /\ o = MarkerValue
    ELSE RedactionOf(in, o, path)

RedactionOf(in, o, path) ==
    \/ ~IsContainer(in) /\ o = in
    \/ t.cfg.ReplaceWithMarker /\ o = MarkerValue
    \/ Truncated(in, o)
    \/ /\ in.t = "obj" /\ o.t = "obj"
       /\ DOMAIN o.m \subseteq DOMAIN in.m
       /\ \A k \in DOMAIN o.m : RedactedEntry(in.m[k], o.m[k], KeyPath(path, k))
    \/ /\ in.t = "arr" /\ o.t = "arr"
       /\ Len(o.a) <= Len(in.a)
       /\ \E f \in Increasing(Len(o.a), Len(in.a)) :
             \A j \in 1..Len(o.a) :
                RedactedEntry(in.a[f[j]], o.a[j], IndexPath(path, f[j]))

\* The same with the Marker at every blacklisted path when ReplaceWithMarker
\* is true.  Positions are followed through objects, and through arrays that
\* kept their length (no stage inserts, so their indices are the input's).
RECURSIVE MarkedOrGone(_, _, _)
MarkedOrGoneEntry(in, present, o, path) ==
    IF Blacklisted(path)
    THEN IF t.cfg.ReplaceWithMarker THEN present /\ o = MarkerValue ELSE ~present
    ELSE present => MarkedOrGone(in, o, path)

MarkedOrGone(in, o, path) ==
    CASE in.t = "obj" /\ o.t = "obj" ->
            \A k \in DOMAIN in.m :
                MarkedOrGoneEntry(in.m[k], k \in DOMAIN o.m, MapGet(o.m, k), KeyPath(path, k))
      [] in.t = "arr" /\ o.t = "arr" /\ Len(in.a) = Len(o.a) ->
            \A i \in 1..Len(in.a) :
                MarkedOrGoneEntry(in.a[i], TRUE, o.a[i], IndexPath(path, i))
      [] OTHER -> TRUE

-----------------------------------------------------------------------------
\* What the claim says stripRecursive returns: the blacklisted subtrees gone
\* (or the Marker in their place), every other value as it was.
Absent == [t |-> "absent"]

RECURSIVE OnlyBlacklistedRemoved(_, _)
OnlyBlacklistedRemoved(x, path) ==
    IF Len(path) > 0 /\ Blacklisted(path)
    THEN IF t.cfg.ReplaceWithMarker THEN MarkerValue ELSE Absent
    ELSE CASE x.t = "obj" ->
                LET r == [k \in DOMAIN x.m |-> OnlyBlacklistedRemoved(x.m[k], KeyPath(path, k))]
                IN  Obj([k \in {k \in DOMAIN x.m : r[k] # Absent} |-> r[k]])
           [] x.t = "arr" ->
                Arr(SelectSeq([i \in 1..Len(x.a) |->
                                 OnlyBlacklistedRemoved(x.a[i], IndexPath(path, i))],
                              LAMBDA e : e # Absent))
           [] OTHER -> x

\* C3: with a non-empty blacklist, stripBlacklisted leaves every value at a
\* path that matches no rule and lies under no blacklisted path as it was
\* (a container: its entries minus its blacklisted descendants), null values,
\* empty arrays and empty objects included.
C3_NonMatchingUntouched ==
    (AfterStrip /\ Len(t.blacklistParts) > 0) =>
        stripped = OnlyBlacklistedRemoved(raw, <<>>)

-----------------------------------------------------------------------------
AfterFields == pc \notin {"unmarshal", "strip", "pre", "fields"} /\ WellFormed

\* The exact serialized size of x is within FieldLimit, or x is exempt.
FitsField(x) ==
    \/ x.t \in {"null", "bool", "num"}
    \/ x = MarkerValue
    \/ Len(Marshal(x)) <= t.cfg.FieldLimit

RECURSIVE EntriesFit(_)
EntriesFit(x) ==
    CASE x.t = "obj" -> \A k \in DOMAIN x.m : FitsField(x.m[k]) /\ EntriesFit(x.m[k])
      [] x.t = "arr" -> \A i \in 1..Len(x.a) : FitsField(x.a[i]) /\ EntriesFit(x.a[i])
      [] OTHER -> TRUE

\* C4: after trimFields(v, 1) every string leaf, a root string included, and
\* every entry or element that is an object, an array or a string has exact
\* serialized size <= FieldLimit, the Marker string excepted.
C4_NoFieldOverFieldLimit ==
    AfterFields => /\ (fielded.t = "str" => FitsField(fielded))
                   /\ EntriesFit(fielded)

-----------------------------------------------------------------------------
BuiltIn(s) ==
    \/ s.kind \in {"RemoveLargest", "FIFO"}
    \/ /\ s.kind = "PrioritizeKeys"
       /\ s.Fallback = NilStrategy \/ s.Fallback.kind \in {"RemoveLargest", "FIFO"}

Entries(x) ==
    CASE x.t = "obj" -> Cardinality(DOMAIN x.m)
      [] x.t = "arr" -> Len(x.a)
      [] OTHER -> 0

Markers(x) ==
    CASE x.t = "obj" -> Cardinality({k \in DOMAIN x.m : x.m[k] = MarkerValue})
      [] x.t = "arr" -> Cardinality({i \in 1..Len(x.a) : x.a[i] = MarkerValue})
      [] OTHER -> 0

\* The last step was an iteration of enforceTotal that applied a token.
Removed == pc = "enforce" /\ iter > 0

\* C5: with a built-in strategy every iteration of enforceTotal that got a
\* non-empty token made progress (an entry became the Marker, or there is one
\* entry less), so the loop takes at most two iterations per entry of the
\* value it was given; this for every key, keys that begin with "idx:"
\* included.
C5_EveryRemovalMakesProgress ==
    (Removed /\ BuiltIn(t.cfg.Strategy)) =>
        /\ \/ Entries(v) < Entries(before)
           \/ Entries(v) = Entries(before) /\ Markers(v) > Markers(before)
        /\ iter <= 2 * Entries(fielded)

-----------------------------------------------------------------------------
AfterUnmarshal == pc # "unmarshal" /\ WellFormed

\* o is in with entries removed, replaced by the Marker or truncated, the
\* elements that are left of every array being in the order they had in in.
RECURSIVE InOrder(_, _)
InOrder(in, o) ==
    \/ ~IsContainer(in) /\ o = in
    \/ t.cfg.ReplaceWithMarker /\ o = MarkerValue
    \/ Truncated(in, o)
    \/ /\ in.t = "obj" /\ o.t = "obj"
       /\ DOMAIN o.m \subseteq DOMAIN in.m
       /\ \A k \in DOMAIN o.m : InOrder(in.m[k], o.m[k])
    \/ /\ in.t = "arr" /\ o.t = "arr"
       /\ Len(o.a) <= Len(in.a)
       /\ \E f \in Increasing(Len(o.a), Len(in.a)) :
             \A j \in 1..Len(o.a) : InOrder(in.a[f[j]], o.a[j])

\* C6: no stage reorders the elements of an array that survive (identity
\* hooks); and when enforceTotal removes index i of an array of length n, what
\* is left is elements 0..i-1 followed by elements i+1..n-1.
C6_ArrayOrderPreserved ==
    /\ (AfterUnmarshal /\ IdentityHooks) => (v = Nil \/ InOrder(raw, v))
    /\ (Removed /\ before.t = "arr" /\ Entries(v) < Entries(before)) =>
          \E i \in 0..(Len(before.a) - 1) :
             /\ tok = IdxToken(i)
             /\ v = Arr(SubSeq(before.a, 1, i) \o SubSeq(before.a, i + 2, Len(before.a)))

\* The middle element of three distinct ones was removed, as in
\* TestEnforceTotalArrayOrder.
C6_Witness ==
    /\ Succeeded /\ IdentityHooks
    /\ raw = Arr(<<Num(7), Str("x"), Str(S12)>>)
    /\ tok = "idx:1"
    /\ v = Arr(<<Num(7), Str(S12)>>)

-----------------------------------------------------------------------------
RECURSIVE MaxOfSet(_)
MaxOfSet(S) ==
    IF S = {} THEN 0
    ELSE LET x == CHOOSE y \in S : TRUE IN Max(x, MaxOfSet(S \ {x}))

\* The levels of nested containers of x.
RECURSIVE Levels(_)
Levels(x) ==
    CASE x.t = "obj" -> 1 + MaxOfSet({Levels(x.m[k]) : k \in DOMAIN x.m})
      [] x.t = "arr" -> 1 + MaxOfSet({Levels(x.a[i]) : i \in 1..Len(x.a)})
      [] OTHER -> 0

Children(x) ==
    CASE x.t = "obj" -> {x.m[k] : k \in DOMAIN x.m}
      [] x.t = "arr" -> {x.a[i] : i \in 1..Len(x.a)}
      [] OTHER -> {}

\* Every value of x (itself at depth) that lies deeper than MaxDepth is the
\* Marker, and there is none when ReplaceWithMarker is false.
RECURSIVE Collapsed(_, _)
Collapsed(x, depth) ==
    IF depth > t.cfg.MaxDepth
    THEN t.cfg.ReplaceWithMarker /\ x = MarkerValue
    ELSE \A c \in Children(x) : Collapsed(c, depth + 1)

\* C7: the Field Trimmer collapses every subtree deeper than MaxDepth (root
\* at depth 1) to the Marker when ReplaceWithMarker is true and omits it
\* otherwise, and the output of Trim nests containers at most MaxDepth deep.
C7_DepthCollapsed ==
    /\ AfterFields => Collapsed(fielded, 1) /\ Levels(fielded) <= t.cfg.MaxDepth
    /\ (Returned /\ WellFormed /\ t.cfg.Hooks.PostTrim # "wrap") =>
          Levels(v) <= t.cfg.MaxDepth

\* A value nested four deep was cut at MaxDepth 2.
C7_Witness ==
    /\ Succeeded
    /\ raw = Nest(3)
    /\ t.cfg.MaxDepth = 2
    /\ Levels(raw) = 4
    /\ v \in {Obj([k \in {"a"} |-> Obj(EmptyMap)]),
              Obj([k \in {"a"} |-> Obj([k2 \in {"a"} |-> MarkerValue])])}

-----------------------------------------------------------------------------
Prioritizing ==
    /\ t.cfg.Strategy.kind = "PrioritizeKeys"
    /\ Len(t.cfg.Strategy.KeepKeys) > 0

Kept(k) == IsKeep(t.cfg.Strategy, k)

KeepOnly(x) == Obj([k \in {k \in DOMAIN x.m : Kept(k)} |-> x.m[k]])

\* C8: under PrioritizeKeys with keep keys and a root object, enforceTotal
\* neither removes nor redacts a keep-key entry while an entry of another key
\* is present; so when the keep-key entries alone fit TotalLimit, all of them
\* are in the result of enforceTotal, unchanged.
C8_KeepKeysOutliveOthers ==
    /\ (/\ Removed /\ Prioritizing /\ before.t = "obj"
        /\ \E k \in DOMAIN before.m : ~Kept(k)) =>
          /\ ~Kept(tok)
          /\ \A k \in DOMAIN before.m :
                Kept(k) => k \in DOMAIN v.m /\ v.m[k] = before.m[k]
    /\ (/\ pc \in {"enforce", "post"} /\ Prioritizing /\ fielded.t = "obj"
        /\ ~OverTotal(t, KeepOnly(fielded))) =>
          \A k \in DOMAIN fielded.m :
             Kept(k) => k \in DOMAIN v.m /\ v.m[k] = fielded.m[k]

\* The entries of other keys were removed and the keep-key entry is returned.
C8_Witness ==
    /\ Succeeded /\ Prioritizing
    /\ iter > 0
    /\ "id" \in DOMAIN v.m
    /\ DOMAIN fielded.m = {"a", "id"}
    /\ DOMAIN v.m = {"id"}
    /\ v.m["id"] = raw.m["id"]

-----------------------------------------------------------------------------
\* Every object of o has the keys and every array of o the length that it
\* has in in: what was removed left the Marker.
RECURSIVE SameShape(_, _)
SameShape(in, o) ==
    \/ o = MarkerValue
    \/ ~IsContainer(in) /\ ~IsContainer(o)
    \/ /\ in.t = "obj" /\ o.t = "obj"
       /\ DOMAIN o.m = DOMAIN in.m
       /\ \A k \in DOMAIN in.m : SameShape(in.m[k], o.m[k])
    \/ /\ in.t = "arr" /\ o.t = "arr"
       /\ Len(o.a) = Len(in.a)
       /\ \A i \in 1..Len(in.a) : SameShape(in.a[i], o.a[i])

\* C9: with ReplaceWithMarker true whatever a stage removes is replaced by
\* the Marker instead of being deleted: an iteration of enforceTotal leaves
\* the root its keys or its length, and (identity hooks) in the successful
\* output every object has the keys and every array the length of the input.
C9_RemovedEntriesHoldMarker ==
    /\ (Removed /\ t.cfg.ReplaceWithMarker) => SameShape(before, v)
    /\ (Succeeded /\ IdentityHooks /\ t.cfg.ReplaceWithMarker) => SameShape(raw, v)

-----------------------------------------------------------------------------
\* C10: with a built-in strategy, a value enforceTotal returns that is still
\* over TotalLimit is a scalar, an empty object or an empty array.
C10_StopsOnlyWhenNothingIsLeft ==
    (pc = "post" /\ BuiltIn(t.cfg.Strategy) /\ OverTotal(t, v)) => Entries(v) = 0

-----------------------------------------------------------------------------
\* No entry of an object and no element of an array inside x is an object
\* or an array without entries.
RECURSIVE NoEmptyEntries(_)
NoEmptyEntries(x) ==
    \A c \in Children(x) : (IsContainer(c) => Entries(c) > 0) /\ NoEmptyEntries(c)

\* C11: with a non-empty blacklist and ReplaceWithMarker false, the result of
\* stripBlacklisted holds no empty object and no empty array as an entry of
\* any container: a container left without entries is removed from its parent.
C11_NoEmptyContainerAfterStrip ==
    (AfterStrip /\ Len(t.blacklistParts) > 0 /\ ~t.cfg.ReplaceWithMarker) =>
        NoEmptyEntries(stripped)

-----------------------------------------------------------------------------
\* A Bool, Number or Null value.
NonStringLeaf(x) == x.t \in {"null", "bool", "num"}

\* The order-preserving ways to place the n elements of a result among the m
\* elements of an input.
Embeddings(n, m) ==
    {f \in [1..n -> 1..m] : \A a, b \in 1..n : a < b => f[a] < f[b]}

\* Every Bool, Number or Null leaf of in at depth <= MaxDepth (in itself at
\* depth) whose enclosing containers are kept in o is in o with its value, at
\* its key or at its position relative to the other elements.
RECURSIVE LeavesKept(_, _, _)
LeavesKept(in, o, depth) ==
    CASE NonStringLeaf(in) -> (depth <= t.cfg.MaxDepth => o = in)
      [] in.t = "obj" /\ o.t = "obj" ->
            \A k \in DOMAIN in.m :
                IF NonStringLeaf(in.m[k])
                THEN depth + 1 <= t.cfg.MaxDepth =>
                        k \in DOMAIN o.m /\ o.m[k] = in.m[k]
                ELSE (IsContainer(in.m[k]) /\ k \in DOMAIN o.m) =>
                        LeavesKept(in.m[k], o.m[k], depth + 1)
      [] in.t = "arr" /\ o.t = "arr" ->
            \E f \in Embeddings(Len(o.a), Len(in.a)) :
                /\ \A i \in 1..Len(in.a) :
                      (NonStringLeaf(in.a[i]) /\ depth + 1 <= t.cfg.MaxDepth) =>
                          \E j \in 1..Len(o.a) : f[j] = i /\ o.a[j] = in.a[i]
                /\ \A j \in 1..Len(o.a) :
                      IsContainer(in.a[f[j]]) =>
                          LeavesKept(in.a[f[j]], o.a[j], depth + 1)
      [] OTHER -> TRUE

\* C12: trimFields never alters Bool, Number or Null values: with
\* FieldLimit > 0, every such leaf at depth <= MaxDepth whose enclosing
\* containers are kept is in the result of trimFields(v, 1) at the same key
\* or relative array position with the same value, neither dropped nor
\* replaced by the Marker.
C12_NonStringLeavesUnaltered ==
    [][(pc = "fields" /\ t.cfg.FieldLimit > 0) => LeavesKept(v, v', 1)]_vars

====
